---- MODULE Spec2Model ----
(***************************************************************************)
(* koder_utils/rpc_node.py: BaseConnectionPool and the fan-out helpers     *)
(* built on it, as an asyncio state machine.  One step of the model is one *)
(* run of a coroutine between two suspension points (an await that hands   *)
(* control back to the event loop): await rpc_connect, await               *)
(* Condition.wait, the body of `async with pool.connection(addr)`, await   *)
(* rpc_disconnect.  `async with Condition` never suspends here: the lock   *)
(* is only ever held between two suspension points, so it is free whenever *)
(* a coroutine asks for it.                                                *)
(*                                                                         *)
(* Callers: a task acquires a handle (get_conn, directly or through        *)
(* connection()), uses it, and passes it to release_conn; a caller may     *)
(* also pass a handle a second time while it is still in the free list     *)
(* (the double release that release_conn guards against).  One owner calls *)
(* connect() and disconnect().                                             *)
(***************************************************************************)
EXTENDS Integers, Sequences, FiniteSets, TLC

\* Bounds of the model.
NTasks == 3
NKeys == 2
MaxCap == 2
MaxConns == 3

Tasks == 1..NTasks
Keys == 1..NKeys
Handles == 1..MaxConns

VARIABLES
    max_conn_per_node,  \* constructor argument, >= 1
    opened,             \* self.opened
    free_keys,          \* keys of self.free_conn / self.conn_per_node, in dict order
    free_conn,          \* self.free_conn: key -> list of idle handles (<<>> when absent)
    conn_per_node,      \* self.conn_per_node: key -> counter (0 when absent)
    conn_freed,         \* keys of self.conn_freed (the keys that have a Condition)
    waiters,            \* key -> tasks in Condition._waiters of the key's current Condition
    pc,                 \* task -> "idle" | "rpc_connect" | "wait" | "woken" | "body"
    addr,               \* task -> conn_addr of its get_conn / connection() (0: none)
    conn,               \* task -> the handle get_conn returned to it (0: none)
    d_pc,               \* disconnect(): "idle" | "rpc_disconnect"
    d_pos,              \* disconnect(): position in self.free_conn.items()
    d_idx,              \* disconnect(): position in conns
    d_used,             \* disconnect(): dict size when the iteration began
    d_held,             \* disconnect(): the handles held when it was called
    d_clean,            \* disconnect(): nothing was issued or reserved when it was called
    a_pc,               \* amap(): "idle" | "gather" | "iter" | "raised" | "stopped"
    addrs,              \* amap(): the keys, in order; cl(addrs[i]) runs as task i
    results,            \* amap(): i -> "new" | "run" | "res" | "exc", outcome of cl(addrs[i])
    yielded,            \* amap(): the pairs <<key, position>> yielded so far
    raised,             \* amap(): position of the outcome it raised (0: none)
    m_pc,               \* rpc_map(): "idle" | "acquire" | "acq_yield" | "gather" | "results" | "done"
    hostnames,          \* rpc_map(): the keys, in order
    m_pos,              \* rpc_map(): position in hostnames, then in zip(hostnames, results)
    conns,              \* rpc_map(): the dict conns, as its items <<hostname, conn>> in dict order
    coros,              \* rpc_map(): [conn, hostname, pos] of every func(conn, hostname) created
    m_res,              \* rpc_map(): what gather returned, "res" | "exc" per coroutine
    m_yielded,          \* rpc_map(): the pairs [key, kind, of] yielded so far
    m_held,             \* rpc_map(): <<key, handle>> got from get_conn, not passed to release_conn
    last                \* the last call or resumption and its outcome

vars == <<max_conn_per_node, opened, free_keys, free_conn, conn_per_node, conn_freed,
          waiters, pc, addr, conn, d_pc, d_pos, d_idx, d_used, d_held, d_clean,
          a_pc, addrs, results, yielded, raised,
          m_pc, hostnames, m_pos, conns, coros, m_res, m_yielded, m_held, last>>

poolVars == <<opened, free_keys, free_conn, conn_per_node, conn_freed, waiters>>
taskVars == <<pc, addr, conn>>
discVars == <<d_pc, d_pos, d_idx, d_used, d_held, d_clean>>
amapVars == <<a_pc, addrs, results, yielded, raised>>
mapVars == <<m_pc, hostnames, m_pos, conns, coros, m_res, m_yielded, m_held>>
fanVars == <<amapVars, mapVars>>

----------------------------------------------------------------------------
\* Python list and dict helpers.

Contains(s, x) == \E i \in 1..Len(s) : s[i] = x

Front(s) == SubSeq(s, 1, Len(s) - 1)

Oldest(s) == s[1]

\* list.pop() returns the last element.
Last(s) == s[Len(s)]

RemoveAll(s, x) == SelectSeq(s, LAMBDA y : y # x)

Count(s, x) == Cardinality({i \in 1..Len(s) : s[i] = x})

Ev(op, out) == [op |-> op, outcome |-> out]

\* The handles returned by get_conn and not yet passed to release_conn.
Held == {<<addr[t], conn[t]>> : t \in {u \in Tasks : pc[u] = "body"}} \cup m_held

----------------------------------------------------------------------------
\* BaseConnectionPool.__init__

Init ==
    /\ max_conn_per_node \in 1..MaxCap
    /\ opened = FALSE
    /\ free_keys = <<>>
    /\ free_conn = [k \in Keys |-> <<>>]
    /\ conn_per_node = [k \in Keys |-> 0]
    /\ conn_freed = {}
    /\ waiters = [k \in Keys |-> <<>>]
    /\ pc = [t \in Tasks |-> "idle"]
    /\ addr = [t \in Tasks |-> 0]
    /\ conn = [t \in Tasks |-> 0]
    /\ d_pc = "idle"
    /\ d_pos = 0
    /\ d_idx = 0
    /\ d_used = 0
    /\ d_held = {}
    /\ d_clean = FALSE
    /\ a_pc = "idle"
    /\ addrs = <<>>
    /\ results = <<>>
    /\ yielded = <<>>
    /\ raised = 0
    /\ m_pc = "idle"
    /\ hostnames = <<>>
    /\ m_pos = 0
    /\ conns = <<>>
    /\ coros = <<>>
    /\ m_res = <<>>
    /\ m_yielded = <<>>
    /\ m_held = {}
    /\ last = Ev("init", "ok")

----------------------------------------------------------------------------
\* get_conn

\* `self.conn_per_node.setdefault(conn_addr, 0) < self.max_conn_per_node`
CanReserveOffByOne(k) == conn_per_node[k] <= max_conn_per_node

CanReserve(k) == conn_per_node[k] < max_conn_per_node

\* get_conn returns h to task t, which holds it from now on.
Returned(t, k, h) ==
    /\ pc' = [pc EXCEPT ![t] = "body"]
    /\ conn' = [conn EXCEPT ![t] = h]
    /\ addr' = [addr EXCEPT ![t] = k]

\* get_conn raises in task t.
Raised(t) ==
    /\ pc' = [pc EXCEPT ![t] = "idle"]
    /\ conn' = [conn EXCEPT ![t] = 0]
    /\ addr' = [addr EXCEPT ![t] = 0]

\* One pass of the `while True` body for task t, up to its return, its raise or
\* its next suspension.  cf and w are self.conn_freed's keys and the waiters as
\* the step has left them so far; op names the step for `last`.
Loop(t, k, cf, w, op) ==
    /\ free_keys' = IF Contains(free_keys, k) THEN free_keys ELSE Append(free_keys, k)
    /\ conn_freed' = cf
    /\ UNCHANGED <<opened, discVars, max_conn_per_node>>
    /\ IF free_conn[k] # <<>>
       THEN /\ free_conn' = [free_conn EXCEPT ![k] = Front(@)]
            /\ Returned(t, k, Last(free_conn[k]))
            /\ waiters' = w
            /\ UNCHANGED conn_per_node
            /\ last' = Ev(op, "conn")
       ELSE IF CanReserve(k)
       THEN /\ conn_per_node' = [conn_per_node EXCEPT ![k] = @ + 1]
            /\ pc' = [pc EXCEPT ![t] = "rpc_connect"]
            /\ addr' = [addr EXCEPT ![t] = k]
            /\ waiters' = w
            /\ UNCHANGED <<free_conn, conn>>
            /\ last' = Ev(op, "rpc_connect")
       ELSE IF k \notin cf
       THEN /\ Raised(t)
            /\ waiters' = w
            /\ UNCHANGED <<free_conn, conn_per_node>>
            /\ last' = Ev(op, "KeyError")
       ELSE /\ waiters' = [w EXCEPT ![k] = Append(@, t)]
            /\ pc' = [pc EXCEPT ![t] = "wait"]
            /\ addr' = [addr EXCEPT ![t] = k]
            /\ UNCHANGED <<free_conn, conn_per_node, conn>>
            /\ last' = Ev(op, "wait")

\* A call of get_conn(k) by task t.
GetConn(t, k) ==
    /\ pc[t] = "idle"
    /\ IF ~opened
       THEN /\ last' = Ev("get_conn", "AssertNotOpened")
            /\ Raised(t)
            /\ UNCHANGED <<poolVars, discVars, max_conn_per_node>>
       ELSE Loop(t, k, conn_freed \cup {k}, waiters, "get_conn")

\* Condition.wait() returns in a notified task, which goes round the loop again.
Resume(t) ==
    /\ pc[t] = "woken"
    /\ Loop(t, addr[t], conn_freed, [waiters EXCEPT ![addr[t]] = RemoveAll(@, t)], "resume")

\* The handles a caller or the pool has.  A handle is an opaque object: one that
\* neither has is gone, and its name stands for a new object.
Live == {p[2] : p \in Held} \cup {h \in Handles : \E k \in Keys : Contains(free_conn[k], h)}

\* rpc_connect returns a new handle.
ConnectOk(t) ==
    /\ pc[t] = "rpc_connect"
    /\ Handles \ Live # {}
    /\ Returned(t, addr[t], CHOOSE h \in Handles \ Live : \A g \in Handles \ Live : h <= g)
    /\ last' = Ev("rpc_connect", "conn")
    /\ UNCHANGED <<poolVars, discVars, max_conn_per_node>>

\* rpc_connect raises and the counter is left as it is.
ConnectFailKeepsCount(t) ==
    /\ pc[t] = "rpc_connect"
    /\ Raised(t)
    /\ last' = Ev("rpc_connect", "ConnectError")
    /\ UNCHANGED <<opened, free_keys, free_conn, conn_per_node, conn_freed, waiters,
                   discVars, max_conn_per_node>>

\* rpc_connect raises: `self.conn_per_node[conn_addr] -= 1; raise`.
ConnectFail(t) ==
    /\ pc[t] = "rpc_connect"
    /\ Raised(t)
    /\ IF Contains(free_keys, addr[t])
       THEN /\ conn_per_node' = [conn_per_node EXCEPT ![addr[t]] = @ - 1]
            /\ last' = Ev("rpc_connect", "ConnectError")
       ELSE /\ UNCHANGED conn_per_node
            /\ last' = Ev("rpc_connect", "KeyError")
    /\ UNCHANGED <<opened, free_keys, free_conn, conn_freed, waiters,
                   discVars, max_conn_per_node>>

----------------------------------------------------------------------------
\* release_conn

DoubleReleaseUnchecked(k, h) == FALSE

\* `conn in self.free_conn[conn_addr]`
DoubleRelease(k, h) == Contains(free_conn[k], h)

NotifyNone(pcf, k) == pcf

NotifyAll(pcf, k) ==
    [t \in Tasks |-> IF Contains(waiters[k], t) /\ pcf[t] = "wait" THEN "woken" ELSE pcf[t]]

\* Condition.notify(): the first waiter whose future is not done is woken.
Notify(pcf, k) ==
    LET idx == {i \in 1..Len(waiters[k]) : pcf[waiters[k][i]] = "wait"}
    IN  IF idx = {} THEN pcf
        ELSE [pcf EXCEPT ![waiters[k][CHOOSE i \in idx : \A j \in idx : i <= j]] = "woken"]

\* release_conn(k, h); pcf is pc as the caller's step has left it so far.
Release(k, h, pcf, op) ==
    /\ IF ~opened
       THEN /\ UNCHANGED free_conn
            /\ pc' = pcf
            /\ last' = Ev(op, "AssertNotOpened")
       ELSE IF ~Contains(free_keys, k)
       THEN /\ UNCHANGED free_conn
            /\ pc' = pcf
            /\ last' = Ev(op, "KeyError")
       ELSE IF DoubleRelease(k, h)
       THEN /\ UNCHANGED free_conn
            /\ pc' = pcf
            /\ last' = Ev(op, "AssertDoubleRelease")
       ELSE /\ free_conn' = [free_conn EXCEPT ![k] = Append(@, h)]
            /\ IF k \notin conn_freed
               THEN /\ pc' = pcf
                    /\ last' = Ev(op, "KeyError")
               ELSE /\ pc' = Notify(pcf, k)
                    /\ last' = Ev(op, "released")
    /\ UNCHANGED <<opened, free_keys, conn_per_node, conn_freed, waiters,
                   discVars, max_conn_per_node>>

\* A caller passes a handle again that it has released already.
ReleaseAgain(k, h) ==
    /\ Contains(free_conn[k], h)
    /\ Release(k, h, pc, "release_again")
    /\ UNCHANGED <<addr, conn>>

----------------------------------------------------------------------------
\* connection(): `try: yield conn  finally: await self.release_conn(...)`, and
\* a task that calls get_conn and release_conn itself.

\* The use of the handle ends: how \in {"return", "raise", "cancel"}.
BodyExit(t, how) ==
    /\ pc[t] = "body"
    /\ Release(addr[t], conn[t], [pc EXCEPT ![t] = "idle"], how)
    /\ addr' = [addr EXCEPT ![t] = 0]
    /\ conn' = [conn EXCEPT ![t] = 0]

----------------------------------------------------------------------------
\* connect / disconnect

Connect ==
    /\ d_pc = "idle"
    /\ IF opened
       THEN /\ UNCHANGED opened
            /\ last' = Ev("connect", "AssertAlreadyOpened")
       ELSE /\ opened' = TRUE
            /\ last' = Ev("connect", "ok")
    /\ UNCHANGED <<free_keys, free_conn, conn_per_node, conn_freed, waiters, taskVars,
                   discVars, max_conn_per_node>>

\* `not_released = self.conn_per_node[addr] - len(conns)`
NotReleased(k) == conn_per_node[k] - Len(free_conn[k])

\* disconnect()'s `for addr, conns in self.free_conn.items()` from position i up
\* to its first `await self.rpc_disconnect(conn)`, its failed assertion or its
\* end.  A key passed on the way has no conns and not_released = 0, so its
\* `self.conn_per_node[addr] = 0` changes nothing.
RECURSIVE Scan(_)
Scan(i) ==
    IF i > Len(free_keys) THEN [kind |-> "done", pos |-> i]
    ELSE IF NotReleased(free_keys[i]) # 0 THEN [kind |-> "AssertNotReleased", pos |-> i]
    ELSE IF free_conn[free_keys[i]] # <<>> THEN [kind |-> "await", pos |-> i]
    ELSE Scan(i + 1)

\* Where disconnect() goes on from r = Scan(i); cpn is self.conn_per_node so
\* far, dh the handles that were held when disconnect() was called.
Advance(r, cpn, dh) ==
    IF r.kind = "done"
    THEN /\ free_conn' = [k \in Keys |-> <<>>]
         /\ free_keys' = <<>>
         /\ opened' = FALSE
         /\ conn_per_node' = [k \in Keys |-> 0]
         /\ conn_freed' = {}
         /\ waiters' = [k \in Keys |-> <<>>]
         /\ d_pc' = "idle"
         /\ d_pos' = 0
         /\ d_idx' = 0
         /\ d_held' = {}
         /\ last' = Ev("disconnect", "ok")
    ELSE IF r.kind = "AssertNotReleased"
    THEN /\ conn_per_node' = cpn
         /\ d_pc' = "idle"
         /\ d_pos' = 0
         /\ d_idx' = 0
         /\ d_held' = {}
         /\ UNCHANGED <<opened, free_keys, free_conn, conn_freed, waiters>>
         /\ last' = Ev("disconnect", "AssertNotReleased")
    ELSE /\ conn_per_node' = cpn
         /\ d_pc' = "rpc_disconnect"
         /\ d_pos' = r.pos
         /\ d_idx' = 1
         /\ d_held' = dh
         /\ UNCHANGED <<opened, free_keys, free_conn, conn_freed, waiters>>
         /\ last' = Ev("disconnect", "rpc_disconnect")

\* Every key's counter equals the length of its free list and no task is in
\* get_conn or holds a handle.
Clean ==
    /\ \A k \in Keys : NotReleased(k) = 0
    /\ \A t \in Tasks : pc[t] = "idle"

\* A call of disconnect().
Disconnect ==
    /\ d_pc = "idle"
    /\ IF ~opened
       THEN /\ last' = Ev("disconnect", "AssertNotOpened")
            /\ UNCHANGED <<poolVars, discVars>>
       ELSE /\ d_used' = Len(free_keys)
            /\ Advance(Scan(1), conn_per_node, Held)
            /\ d_clean' = (Clean /\ d_pc' = "rpc_disconnect")
    /\ UNCHANGED <<taskVars, max_conn_per_node>>

\* `await self.rpc_disconnect(conn)` returns (ok) or raises.
RpcDisconnectDone(ok) ==
    /\ d_pc = "rpc_disconnect"
    /\ LET k == free_keys[d_pos]
           zeroed == [conn_per_node EXCEPT ![k] = 0]
       IN  IF ~ok
           THEN /\ d_pc' = "idle"
                /\ d_pos' = 0
                /\ d_idx' = 0
                /\ d_held' = {}
                /\ UNCHANGED poolVars
                /\ last' = Ev("disconnect", "DisconnectError")
           ELSE IF d_idx + 1 <= Len(free_conn[k])
           THEN /\ d_idx' = d_idx + 1
                /\ UNCHANGED <<poolVars, d_pc, d_pos, d_held>>
                /\ last' = Ev("disconnect", "rpc_disconnect")
           ELSE IF Len(free_keys) # d_used
           THEN /\ conn_per_node' = zeroed
                /\ d_pc' = "idle"
                /\ d_pos' = 0
                /\ d_idx' = 0
                /\ d_held' = {}
                /\ UNCHANGED <<opened, free_keys, free_conn, conn_freed, waiters>>
                /\ last' = Ev("disconnect", "RuntimeError")
           ELSE Advance(Scan(d_pos + 1), zeroed, d_held)
    /\ d_clean' = (d_clean /\ d_pc' = "rpc_disconnect")
    /\ UNCHANGED <<taskVars, d_used, max_conn_per_node>>

----------------------------------------------------------------------------
\* The pool under tasks that acquire, use and release handles, and an owner
\* that calls connect() and disconnect().

\* Two tasks over every key.
PoolTasks == 1..(NTasks - 1)

\* The pool under callers of get_conn, release_conn, connection(), connect()
\* and disconnect(); no fan-out runs.
Next ==
    \/ \E t \in PoolTasks, k \in Keys : GetConn(t, k) /\ UNCHANGED fanVars
    \/ \E t \in PoolTasks : Resume(t) /\ UNCHANGED fanVars
    \/ \E t \in PoolTasks : ConnectOk(t) /\ UNCHANGED fanVars
    \/ \E t \in PoolTasks : ConnectFail(t) /\ UNCHANGED fanVars
    \/ \E k \in Keys, h \in Handles : ReleaseAgain(k, h) /\ UNCHANGED fanVars
    \/ \E t \in PoolTasks, how \in {"return", "raise", "cancel"} :
           BodyExit(t, how) /\ UNCHANGED fanVars
    \/ Connect /\ UNCHANGED fanVars
    \/ Disconnect /\ UNCHANGED fanVars
    \/ \E ok \in BOOLEAN : RpcDisconnectDone(ok) /\ UNCHANGED fanVars

Spec == Init /\ [][Next]_vars

\* Every task over one key.
NextOneKey ==
    \/ \E t \in Tasks : GetConn(t, 1) /\ UNCHANGED fanVars
    \/ \E t \in Tasks : Resume(t) /\ UNCHANGED fanVars
    \/ \E t \in Tasks : ConnectOk(t) /\ UNCHANGED fanVars
    \/ \E t \in Tasks : ConnectFail(t) /\ UNCHANGED fanVars
    \/ \E h \in Handles : ReleaseAgain(1, h) /\ UNCHANGED fanVars
    \/ \E t \in Tasks, how \in {"return", "raise", "cancel"} :
           BodyExit(t, how) /\ UNCHANGED fanVars
    \/ Connect /\ UNCHANGED fanVars
    \/ Disconnect /\ UNCHANGED fanVars
    \/ \E ok \in BOOLEAN : RpcDisconnectDone(ok) /\ UNCHANGED fanVars

SpecOneKey == Init /\ [][NextOneKey]_vars

\* Every task over one key of a pool that its owner opens and does not close.
NextNoClose ==
    \/ \E t \in Tasks : GetConn(t, 1) /\ UNCHANGED fanVars
    \/ \E t \in Tasks : Resume(t) /\ UNCHANGED fanVars
    \/ \E t \in Tasks : ConnectOk(t) /\ UNCHANGED fanVars
    \/ \E t \in Tasks : ConnectFail(t) /\ UNCHANGED fanVars
    \/ \E h \in Handles : ReleaseAgain(1, h) /\ UNCHANGED fanVars
    \/ \E t \in Tasks, how \in {"return", "raise", "cancel"} :
           BodyExit(t, how) /\ UNCHANGED fanVars
    \/ Connect /\ UNCHANGED fanVars

SpecNoClose == Init /\ [][NextNoClose]_vars

\* The event loop runs every task that can go on, every rpc_connect and
\* rpc_disconnect ends, and every caller ends its use of a handle.
FairOneKey ==
    /\ SpecOneKey
    /\ \A t \in Tasks : WF_vars(Resume(t) /\ UNCHANGED fanVars)
    /\ \A t \in Tasks : WF_vars((ConnectOk(t) \/ ConnectFail(t)) /\ UNCHANGED fanVars)
    /\ \A t \in Tasks :
           WF_vars(\E how \in {"return", "raise", "cancel"} :
                       BodyExit(t, how) /\ UNCHANGED fanVars)
    /\ WF_vars(\E ok \in BOOLEAN : RpcDisconnectDone(ok) /\ UNCHANGED fanVars)

----------------------------------------------------------------------------
\* amap(func, addrs): asyncio.gather runs cl(addr) for every key of addrs as a
\* task of its own, task i for addrs[i]; cl is
\* `async with self.connection(addr) as conn: return await func(addr, conn)`.
\* gather(return_exceptions=True) ends when every cl has ended and hands back
\* their outcomes in the order of addrs; amap then goes through the outcomes
\* in that order, one per request of its consumer.

AddrLists == UNION {[1..n -> Keys] : n \in 1..NTasks}

ClTasks == 1..Len(addrs)

Finished == \A i \in ClTasks : results[i] \in {"res", "exc"}

\* The outcome of cl(addrs[t]) after a step of task t: an exception leaves the
\* coroutine as soon as get_conn, func or release_conn raises.
Outcome(t, ended) ==
    IF pc'[t] # "idle" THEN [results EXCEPT ![t] = "run"]
    ELSE [results EXCEPT ![t] = IF ended THEN "res" ELSE "exc"]

\* The call amap(func, addrs), up to `await asyncio.gather(...)`: gather
\* schedules the tasks, none has run yet.
AmapCall(as) ==
    /\ a_pc \in {"idle", "raised", "stopped"}
    /\ \A t \in Tasks : pc[t] = "idle"
    /\ a_pc' = "gather"
    /\ addrs' = as
    /\ results' = [i \in 1..Len(as) |-> "new"]
    /\ yielded' = <<>>
    /\ raised' = 0
    /\ last' = Ev("amap", "gather")
    /\ UNCHANGED <<poolVars, taskVars, discVars, mapVars, max_conn_per_node>>

\* The first run of cl(addrs[t]): the tasks start in the order of addrs.
ClStart(t) ==
    /\ a_pc = "gather"
    /\ t \in ClTasks
    /\ results[t] = "new"
    /\ \A u \in ClTasks : u < t => results[u] # "new"
    /\ GetConn(t, addrs[t])
    /\ results' = Outcome(t, FALSE)
    /\ UNCHANGED <<a_pc, addrs, yielded, raised, mapVars>>

ClResume(t) ==
    /\ a_pc = "gather"
    /\ t \in ClTasks
    /\ Resume(t)
    /\ results' = Outcome(t, FALSE)
    /\ UNCHANGED <<a_pc, addrs, yielded, raised, mapVars>>

ClConnectOk(t) ==
    /\ a_pc = "gather"
    /\ t \in ClTasks
    /\ ConnectOk(t)
    /\ UNCHANGED fanVars

ClConnectFail(t) ==
    /\ a_pc = "gather"
    /\ t \in ClTasks
    /\ ConnectFail(t)
    /\ results' = Outcome(t, FALSE)
    /\ UNCHANGED <<a_pc, addrs, yielded, raised, mapVars>>

\* func(addr, conn) returns or raises, and connection() releases the handle;
\* cl returns func's result if neither func nor release_conn raised.
ClFunc(t, how) ==
    /\ a_pc = "gather"
    /\ t \in ClTasks
    /\ BodyExit(t, how)
    /\ results' = Outcome(t, how = "return" /\ last'.outcome = "released")
    /\ UNCHANGED <<a_pc, addrs, yielded, raised, mapVars>>

\* One request of the consumer (`async for ... in pool.amap(...)`): the first
\* one waits for gather; each goes on to the next outcome, which amap raises
\* if it is an exception and yields with its key otherwise.
AmapNext ==
    /\ a_pc \in {"gather", "iter"}
    /\ Finished
    /\ LET i == Len(yielded) + 1
       IN  IF i > Len(addrs)
           THEN a_pc' = "stopped" /\ last' = Ev("amap", "stop")
                /\ UNCHANGED <<yielded, raised>>
           ELSE IF results[i] = "exc"
           THEN a_pc' = "raised" /\ raised' = i /\ last' = Ev("amap", "raise")
                /\ UNCHANGED yielded
           ELSE a_pc' = "iter" /\ yielded' = Append(yielded, <<addrs[i], i>>)
                /\ last' = Ev("amap", "yield") /\ UNCHANGED raised
    /\ UNCHANGED <<addrs, results, poolVars, taskVars, discVars, mapVars, max_conn_per_node>>

\* The pool under amap: its owner opens it, consumers call amap, one at a time.
NextAmap ==
    \/ \E as \in AddrLists : AmapCall(as)
    \/ \E t \in Tasks : ClStart(t)
    \/ \E t \in Tasks : ClResume(t)
    \/ \E t \in Tasks : ClConnectOk(t)
    \/ \E t \in Tasks : ClConnectFail(t)
    \/ \E t \in Tasks, how \in {"return", "raise"} : ClFunc(t, how)
    \/ AmapNext
    \/ Connect /\ UNCHANGED fanVars

SpecAmap == Init /\ [][NextAmap]_vars

----------------------------------------------------------------------------
\* rpc_map(pool, func, hostnames): an async generator that runs in the task of
\* its consumer.  It calls get_conn for each hostname in turn, keeps the handles
\* in the dict conns and the coroutines func(conn, hostname) in the list coros,
\* gathers the coroutines, yields zip(hostnames, results), and in its `finally`
\* passes the items of conns to release_conn.

\* The task rpc_map runs in.
MapTask == 1

\* conns[hostname] = conn on a dict kept as its items in insertion order.
DictPut(d, k, v) ==
    IF \E i \in 1..Len(d) : d[i][1] = k
    THEN [i \in 1..Len(d) |-> IF d[i][1] = k THEN <<k, v>> ELSE d[i]]
    ELSE Append(d, <<k, v>>)

\* The first request of the consumer starts the generator's body.
MapCall(hs) ==
    /\ m_pc \in {"idle", "done"}
    /\ pc[MapTask] = "idle"
    /\ m_pc' = "acquire"
    /\ hostnames' = hs
    /\ m_pos' = 1
    /\ conns' = <<>>
    /\ coros' = <<>>
    /\ m_res' = <<>>
    /\ m_yielded' = <<>>
    /\ m_held' = {}
    /\ last' = Ev("rpc_map", "call")
    /\ UNCHANGED <<poolVars, taskVars, discVars, amapVars, max_conn_per_node>>

\* After a step of `conn = await pool.get_conn(hostname)`: if get_conn raised,
\* `except Exception as exc: yield hostname, exc`.
AfterGetConn ==
    IF pc'[MapTask] = "idle"
    THEN /\ m_yielded' = Append(m_yielded,
                                [key |-> hostnames[m_pos], kind |-> "acq_exc", of |-> m_pos])
         /\ m_pc' = "acq_yield"
         /\ m_pos' = m_pos + 1
         /\ UNCHANGED <<hostnames, conns, coros, m_res, m_held>>
    ELSE UNCHANGED mapVars

MapGetConn ==
    /\ m_pc = "acquire"
    /\ m_pos <= Len(hostnames)
    /\ GetConn(MapTask, hostnames[m_pos])
    /\ AfterGetConn
    /\ UNCHANGED amapVars

MapResume ==
    /\ m_pc = "acquire"
    /\ Resume(MapTask)
    /\ AfterGetConn
    /\ UNCHANGED amapVars

MapConnectOk ==
    /\ m_pc = "acquire"
    /\ ConnectOk(MapTask)
    /\ UNCHANGED fanVars

MapConnectFail ==
    /\ m_pc = "acquire"
    /\ ConnectFail(MapTask)
    /\ AfterGetConn
    /\ UNCHANGED amapVars

\* get_conn has returned: `conns[hostname] = conn` and
\* `coros.append(func(conn, hostname, **kwargs))`.
MapStore ==
    /\ m_pc = "acquire"
    /\ pc[MapTask] = "body"
    /\ pc' = [pc EXCEPT ![MapTask] = "idle"]
    /\ addr' = [addr EXCEPT ![MapTask] = 0]
    /\ conn' = [conn EXCEPT ![MapTask] = 0]
    /\ conns' = DictPut(conns, addr[MapTask], conn[MapTask])
    /\ coros' = Append(coros, [conn |-> conn[MapTask], hostname |-> addr[MapTask],
                               pos |-> m_pos])
    /\ m_held' = m_held \cup {<<addr[MapTask], conn[MapTask]>>}
    /\ m_pos' = m_pos + 1
    /\ UNCHANGED <<m_pc, hostnames, m_res, m_yielded, poolVars, discVars, amapVars,
                   max_conn_per_node, last>>

\* The consumer asks for the next pair after an acquisition error was yielded.
MapNext ==
    /\ m_pc = "acq_yield"
    /\ m_pc' = "acquire"
    /\ last' = Ev("rpc_map", "next")
    /\ UNCHANGED <<hostnames, m_pos, conns, coros, m_res, m_yielded, m_held,
                   poolVars, taskVars, discVars, amapVars, max_conn_per_node>>

\* `await asyncio.gather(*coros, return_exceptions=True)`: every coroutine
\* returns ("res") or raises ("exc"); outs[j] is the outcome of coros[j].
MapGather(outs) ==
    /\ m_pc = "acquire"
    /\ pc[MapTask] = "idle"
    /\ m_pos > Len(hostnames)
    /\ m_res' = outs
    /\ m_pc' = "results"
    /\ m_pos' = 1
    /\ last' = Ev("rpc_map", "gather")
    /\ UNCHANGED <<hostnames, conns, coros, m_yielded, m_held,
                   poolVars, taskVars, discVars, amapVars, max_conn_per_node>>

\* The length of zip(hostnames, results).
ZipLen == IF Len(hostnames) <= Len(m_res) THEN Len(hostnames) ELSE Len(m_res)

\* `for hostname, res in zip(hostnames, ...): yield hostname, res`
MapYield ==
    /\ m_pc = "results"
    /\ m_pos <= ZipLen
    /\ m_yielded' = Append(m_yielded,
                           [key |-> hostnames[m_pos], kind |-> m_res[m_pos],
                            of |-> coros[m_pos].pos])
    /\ m_pos' = m_pos + 1
    /\ last' = Ev("rpc_map", "yield")
    /\ UNCHANGED <<m_pc, hostnames, conns, coros, m_res, m_held,
                   poolVars, taskVars, discVars, amapVars, max_conn_per_node>>

\* `for hostname, conn in conns.items(): await pool.release_conn(hostname, conn)`
\* from item i on, with the free lists fc and the tasks' positions pcf so far:
\* release_conn never suspends, so the loop runs in one go, up to its end or
\* the first release_conn that raises; n is the number of calls made.
RECURSIVE ReleaseAll(_, _, _)
ReleaseAll(i, fc, pcf) ==
    IF i > Len(conns) THEN [free |-> fc, pc |-> pcf, n |-> i - 1, out |-> "ok"]
    ELSE LET k == conns[i][1]
             h == conns[i][2]
             put == [fc EXCEPT ![k] = Append(@, h)]
         IN  IF ~opened
             THEN [free |-> fc, pc |-> pcf, n |-> i, out |-> "AssertNotOpened"]
             ELSE IF ~Contains(free_keys, k)
             THEN [free |-> fc, pc |-> pcf, n |-> i, out |-> "KeyError"]
             ELSE IF DoubleRelease(k, h)
             THEN [free |-> fc, pc |-> pcf, n |-> i, out |-> "AssertDoubleRelease"]
             ELSE IF k \notin conn_freed
             THEN [free |-> put, pc |-> pcf, n |-> i, out |-> "KeyError"]
             ELSE ReleaseAll(i + 1, put, Notify(pcf, k))

\* The generator ends: after the last pair (why = "stop"), or closed by its
\* consumer while it is suspended at a yield (why = "abandon"); the `finally`
\* runs, and an exception of release_conn leaves rpc_map.
MapFinally(why) ==
    /\ \/ why = "stop" /\ m_pc = "results" /\ m_pos > ZipLen
       \/ why = "abandon" /\ m_pc = "acq_yield"
       \/ why = "abandon" /\ m_pc = "results" /\ m_pos > 1 /\ m_pos <= ZipLen
    /\ LET r == ReleaseAll(1, free_conn, pc)
       IN  /\ free_conn' = r.free
           /\ pc' = r.pc
           /\ m_held' = m_held \ {<<conns[i][1], conns[i][2]>> : i \in 1..r.n}
           /\ last' = Ev("rpc_map", IF r.out = "ok" THEN why ELSE r.out)
    /\ m_pc' = "done"
    /\ UNCHANGED <<hostnames, m_pos, conns, coros, m_res, m_yielded, addr, conn,
                   opened, free_keys, conn_per_node, conn_freed, waiters,
                   discVars, amapVars, max_conn_per_node>>

\* A caller of the pool outside rpc_map.
Outside == 2

\* The pool under one rpc_map at a time, a caller outside it, and the owner,
\* who opens the pool and leaves it open.
NextRpcMap ==
    \/ \E hs \in AddrLists : MapCall(hs)
    \/ MapGetConn
    \/ MapResume
    \/ MapConnectOk
    \/ MapConnectFail
    \/ MapStore
    \/ MapNext
    \/ \E outs \in [1..Len(coros) -> {"res", "exc"}] : MapGather(outs)
    \/ MapYield
    \/ \E why \in {"stop", "abandon"} : MapFinally(why)
    \/ \E k \in Keys : GetConn(Outside, k) /\ UNCHANGED fanVars
    \/ Resume(Outside) /\ UNCHANGED fanVars
    \/ ConnectOk(Outside) /\ UNCHANGED fanVars
    \/ ConnectFail(Outside) /\ UNCHANGED fanVars
    \/ \E how \in {"return", "raise"} : BodyExit(Outside, how) /\ UNCHANGED fanVars
    \/ Connect /\ UNCHANGED fanVars

SpecRpcMap == Init /\ [][NextRpcMap]_vars

\* A step of rpc_map or of its consumer once the call is under way.
MapStep ==
    \/ MapGetConn
    \/ MapConnectOk
    \/ MapConnectFail
    \/ MapStore
    \/ MapNext
    \/ \E outs \in [1..Len(coros) -> {"res", "exc"}] : MapGather(outs)
    \/ MapYield
    \/ \E why \in {"stop", "abandon"} : MapFinally(why)

\* The pool with rpc_map as its only caller: nobody else holds a handle or
\* calls release_conn, so no notification reaches rpc_map while it waits.
NextMapAlone ==
    \/ \E hs \in AddrLists : MapCall(hs)
    \/ MapStep
    \/ Connect /\ UNCHANGED fanVars

SpecMapAlone == Init /\ [][NextMapAlone]_vars

\* The event loop runs rpc_map whenever it can go on, every rpc_connect and
\* every operation ends, and the consumer goes on asking or closes.
FairMapAlone == SpecMapAlone /\ WF_vars(MapStep)

----------------------------------------------------------------------------
\* C1: in every reachable state the counter conn_per_node[k] of every key k is
\* at most max_conn_per_node.
C1_CounterBounded == \A k \in Keys : conn_per_node[k] <= max_conn_per_node

\* Concurrent pressure: the key is full, one task is connecting, another waits.
C1_Witness ==
    \E t \in Tasks, u \in Tasks :
        /\ pc[t] = "wait" /\ pc[u] = "rpc_connect" /\ addr[u] = addr[t]
        /\ conn_per_node[addr[t]] = max_conn_per_node

\* C2: in every reachable state, for every key, the handles of that key held by
\* callers at the same time are at most max_conn_per_node.
C2_HeldBounded ==
    \A k \in Keys : Cardinality({t \in Tasks : pc[t] = "body" /\ addr[t] = k})
                        <= max_conn_per_node

\* C3: in every reachable state, for every key, the free list is no longer than
\* the outstanding counter.
C3_FreeWithinOutstanding == \A k \in Keys : Len(free_conn[k]) <= conn_per_node[k]

\* C4: a call of disconnect() on an open pool, made while a handle is held and
\* with that handle held until disconnect() is over, fails: the pool stays open
\* and the held handle is not passed to rpc_disconnect.
C4_CloseFailsWhileHeld ==
    [][LET atCall == IF d_pc = "idle" THEN Held ELSE d_held
           stillHeld == atCall \cap Held'
       IN  (last'.op = "disconnect" /\ opened /\ stillHeld # {})
               => /\ opened'
                  /\ last'.outcome # "ok"
                  /\ last'.outcome = "rpc_disconnect"
                        => \A p \in stillHeld :
                               p[2] # free_conn'[free_keys'[d_pos']][d_idx']]_vars

\* A step that is a call release_conn(k, h).
IsRelease(k, h) ==
    \/ ReleaseAgain(k, h)
    \/ \E t \in Tasks, how \in {"return", "raise", "cancel"} :
           BodyExit(t, how) /\ addr[t] = k /\ conn[t] = h

\* C5: release_conn(k, h) called when h is already in free_conn[k] fails and
\* leaves the free list unchanged, and in every reachable state each handle
\* occurs at most once in a key's free list.
C5_DoubleReleaseRejected ==
    /\ [](\A k \in Keys, h \in Handles : Count(free_conn[k], h) <= 1)
    /\ [][\A k \in Keys, h \in Handles :
              (Contains(free_conn[k], h) /\ IsRelease(k, h))
                  => (last'.outcome = "AssertDoubleRelease" /\ free_conn' = free_conn)]_vars

\* A double release has just been rejected.
C5_Witness ==
    /\ last = Ev("release_again", "AssertDoubleRelease")
    /\ \E k \in Keys : free_conn[k] # <<>>

\* C6: when rpc_connect fails in get_conn(k), the connect error is raised to
\* the caller, conn_per_node[k] is decremented by the one the call had
\* reserved, free_conn is unchanged, and the slot can be reserved again.
C6_ConnectFailureRollsBack ==
    [][\A t \in Tasks :
           (pc[t] = "rpc_connect" /\ pc'[t] = "idle")
               => /\ last'.outcome = "ConnectError"
                  /\ conn_per_node'[addr[t]] = conn_per_node[addr[t]] - 1
                  /\ conn_per_node'[addr[t]] < max_conn_per_node
                  /\ free_conn' = free_conn]_vars

\* C9: on every exit of connection()'s body the handle is released: after it
\* the handle is in free_conn[k], once, and no longer held.
C9_ScopeReleases ==
    [][\A t \in Tasks :
           (pc[t] = "body" /\ pc'[t] # "body")
               => /\ Count(free_conn'[addr[t]], conn[t]) = 1
                  /\ <<addr[t], conn[t]>> \notin Held']_vars

\* The tasks a step wakes.
Woken == {t \in Tasks : pc[t] = "wait" /\ pc'[t] = "woken"}

C8_NoWaiterStuckWithCapacity ==
    \A t \in Tasks :
        []<>~(pc[t] = "wait" /\ (free_conn[addr[t]] # <<>> \/ CanReserve(addr[t])))

\* C10: when amap raises, every cl has ended, the outcome raised is the first
\* exception in the order of addrs, and no pair was yielded before.
C10_RaisesFirstErrorYieldsNothing ==
    a_pc = "raised"
        => /\ Finished
           /\ results[raised] = "exc"
           /\ \A i \in 1..(raised - 1) : results[i] # "exc"
           /\ yielded = <<>>

\* C14: a disconnect() called when everything issued had been released, and
\* whose rpc_disconnect calls all return, succeeds and leaves the pool closed
\* and empty; a connect() that follows succeeds and starts from the empty pool.
C14_CloseAfterAllReleased ==
    [][LET atCall == IF d_pc = "idle" THEN Clean ELSE d_clean
           empty == /\ free_keys' = <<>>
                    /\ \A k \in Keys : free_conn'[k] = <<>> /\ conn_per_node'[k] = 0
                    /\ \A k \in Keys : waiters'[k] = <<>>
                    /\ conn_freed' = {}
       IN  /\ (last'.op = "disconnect" /\ d_pc' = "idle" /\ opened /\ atCall
                    /\ last'.outcome # "DisconnectError")
               => (last'.outcome = "ok" /\ ~opened' /\ empty)
           /\ (last'.op = "connect" /\ last = Ev("disconnect", "ok"))
               => (last'.outcome = "ok" /\ opened' /\ empty)]_vars

\* C15: while the pool is not open no get_conn returns a handle and no release
\* appends to a free list, both failing with the pool unchanged; connect() on
\* an open pool fails and changes nothing.
C15_NothingWhileClosed ==
    [][/\ \A t \in Tasks : (pc[t] # "body" /\ pc'[t] = "body") => opened
       /\ \A t \in Tasks, k \in Keys :
              (GetConn(t, k) /\ ~opened)
                  => (last'.outcome = "AssertNotOpened" /\ UNCHANGED poolVars)
       /\ \A k \in Keys, h \in Handles :
              (IsRelease(k, h) /\ ~opened)
                  => (last'.outcome = "AssertNotOpened" /\ UNCHANGED poolVars)
       /\ (last'.op = "connect" /\ opened)
              => (last'.outcome = "AssertAlreadyOpened" /\ UNCHANGED poolVars)]_vars

\* C16: get_conn(k) called when free_conn[k] is not empty returns the last
\* handle of the list, which is the one released last, takes it off the list,
\* and neither calls rpc_connect nor changes a counter.
C16_ReusesLastReleased ==
    [][/\ \A t \in Tasks, k \in Keys :
              (GetConn(t, k) /\ free_conn[k] # <<>>)
                  => /\ pc'[t] = "body"
                     /\ addr'[t] = k
                     /\ conn'[t] = free_conn[k][Len(free_conn[k])]
                     /\ free_conn' = [free_conn EXCEPT ![k] = SubSeq(@, 1, Len(@) - 1)]
                     /\ conn_per_node' = conn_per_node
       /\ \A t \in Tasks :
              (pc[t] = "body" /\ pc'[t] # "body" /\ last'.outcome = "released")
                  => free_conn' = [free_conn EXCEPT ![addr[t]] = Append(@, conn[t])]]_vars

\* get_conn has returned one of two idle handles of a key.
C16_Witness ==
    /\ last = Ev("get_conn", "conn")
    /\ \E t \in Tasks : pc[t] = "body" /\ free_conn[addr[t]] # <<>>

\* C18: a disconnect() that fails on a key with unreleased handles has called
\* rpc_disconnect on no handle and leaves every free list and counter as it was.
C18_FailedCloseChangesNothing ==
    [][(last'.op = "disconnect" /\ last'.outcome = "AssertNotReleased")
           => (d_pc = "idle" /\ free_conn' = free_conn /\ conn_per_node' = conn_per_node)]_vars

\* C19 requires that get_conn returns no handle on which rpc_disconnect has been
\* called; in particular none that the disconnect() in progress has passed to
\* rpc_disconnect: those are the first d_idx handles of the key it is at.
C19_NoDisconnectedHandleReturned ==
    [][\A t \in Tasks :
           (pc[t] # "body" /\ pc'[t] = "body" /\ d_pc = "rpc_disconnect")
               => LET idle == free_conn[free_keys[d_pos]]
                  IN  \A i \in 1..d_idx : i <= Len(idle) => idle[i] # conn'[t]]_vars

\* C17, as claimed: no task is suspended on a key's condition, with no wake-up
\* pending for it, while the key's free list holds a handle.  (A task suspends
\* only on finding the list empty, so a handle in the list was released after.)
C17_NoWaiterBesideFreeHandle ==
    \A t \in Tasks : pc[t] = "wait" => free_conn[addr[t]] = <<>>

\* C17, amended: while a key's free list holds a handle and tasks are suspended
\* on the key's condition, at least one task notified on that key has its
\* wake-up pending; and a task suspends in the very step that found the free
\* list empty and no slot unreserved.
C17_NotifyNeverLost ==
    /\ [](\A k \in Keys :
              (free_conn[k] # <<>> /\ \E t \in Tasks : pc[t] = "wait" /\ addr[t] = k)
                  => \E u \in Tasks : pc[u] = "woken" /\ addr[u] = k)
    /\ [][\A t \in Tasks :
              (pc[t] # "wait" /\ pc'[t] = "wait")
                  => (free_conn[addr'[t]] = <<>> /\ free_conn'[addr'[t]] = <<>>
                      /\ Contains(waiters'[addr'[t]], t))]_vars

\* A handle is free, one notified task has not run yet and another is suspended.
C17_Witness ==
    \E t, u \in Tasks :
        /\ pc[t] = "wait" /\ pc[u] = "woken" /\ addr[t] = addr[u]
        /\ free_conn[addr[t]] # <<>>

----------------------------------------------------------------------------
\* C11: rpc_map never raises and yields exactly one pair per key, and the
\* outcome paired with a key is that key's own acquisition error or the outcome
\* of the operation invoked with that key's handle, never another key's.
C11_OwnOutcome ==
    \A i \in 1..Len(m_yielded) : m_yielded[i].of \in 1..Len(hostnames)
                                  /\ hostnames[m_yielded[i].of] = m_yielded[i].key

C11_OnePairPerKey ==
    (m_pc = "done" /\ last = Ev("rpc_map", "stop"))
        => /\ Len(m_yielded) = Len(hostnames)
           /\ \A k \in Keys :
                  Cardinality({i \in 1..Len(m_yielded) : m_yielded[i].key = k})
                      = Count(hostnames, k)

C11_NeverRaises ==
    last.op = "rpc_map"
        => last.outcome \in {"call", "next", "gather", "yield", "stop", "abandon"}

C11_OneOwnPairPerKey == C11_OwnOutcome /\ C11_OnePairPerKey /\ C11_NeverRaises

----------------------------------------------------------------------------
----------------------------------------------------------------------------
\* C13: when rpc_map ends, however it ends, every handle it acquired has been
\* passed to release_conn and none is still held by it.
C13_AllReleasedAtEnd == m_pc = "done" => m_held = {}

----------------------------------------------------------------------------
\* C20: a call of rpc_map on an open pool that nobody else uses always ends,
\* whatever the list of keys and the limit per key.
C20_RpcMapTerminates == (opened /\ m_pc = "acquire") ~> (m_pc = "done")

====
